---- MODULE Spec2Model ----
(***************************************************************************)
(* A model of luna_cli/main.py: the `configure`, `upload` and              *)
(* `checkfolder` commands, the local folder they read and the S3 bucket    *)
(* `upload` writes.                                                        *)
(*                                                                         *)
(* Strings (file names, paths, extensions, S3 keys, MD5 digests) are       *)
(* sequences of one-character strings, so that str.lower, str.endswith,    *)
(* str.lstrip, str.strip, os.path.join, os.path.dirname and                *)
(* os.path.relpath are computed character by character as Python's         *)
(* posixpath computes them.                                                *)
(***************************************************************************)
EXTENDS Integers, Sequences, FiniteSets, TLC

VARIABLES
    config,        \* the value stored under 'bucket_name' in the shelf, or None
    fs,            \* the files under the folder: records [dir, name, body]
    dirOrder,      \* the order in which the OS lists the entries of a directory
    bucket,        \* the S3 bucket: key -> [md5 (user metadata or None), body]
    command,       \* the command whose process is alive, or "none"
    pc,            \* position of the running command
    cwd,           \* working directory of the running command
    folder_path,   \* argument of the running command
    ignore_ext,    \* normalised extension filter of the running command
    bucket_name,   \* what read_config() returned to upload
    s3_objects,    \* snapshot built by list_s3_objects: key -> fingerprint
    todo,          \* files the walk of upload has still to yield
    total_size,    \* byte total of the sizing pass of upload
    outcome,       \* what upload did with each file it reached
    uploadCalls,   \* calls of transfer.upload_file made by the running upload
    listCalls,     \* calls of list_objects_v2 made by the running upload
    md5Calls,      \* calls of get_md5 made by the running upload
    echoed,        \* what the running command printed with click.echo
    raised,        \* the exception that ended the running command, or NoError
    table,         \* rows checkfolder printed, in order
    runs,          \* number of upload commands started
    edits,         \* number of local edits made between commands
    prev           \* the last upload that ran to its end with no local edit since, or NoPrev

vars == <<config, fs, dirOrder, bucket, command, pc, cwd, folder_path, ignore_ext,
          bucket_name, s3_objects, todo, total_size, outcome, uploadCalls,
          listCalls, md5Calls, echoed, raised, table, runs, edits, prev>>

\* Python's None where a string is expected: no string of characters equals it
None == <<"None">>

\* no exception
NoError == "NoError"

\* no upload has run to its end
NoPrev == [run |-> 0, wd |-> <<>>, fp |-> <<>>, ign |-> {}, uploads |-> 0]

----------------------------------------------------------------------------
(* Bounds of the model *)

MaxRuns == 2
MaxEdits == 1

----------------------------------------------------------------------------
(* Python str operations *)

\* str.lower() on one character
LowerChar(c) ==
    CASE c = "A" -> "a"
      [] c = "B" -> "b"
      [] c = "C" -> "c"
      [] c = "D" -> "d"
      [] c = "E" -> "e"
      [] c = "F" -> "f"
      [] c = "T" -> "t"
      [] OTHER -> c

\* str.lower()
Lower(s) == [i \in 1..Len(s) |-> LowerChar(s[i])]

\* str.endswith(suffix)
EndsWith(s, suffix) ==
    /\ Len(suffix) <= Len(s)
    /\ SubSeq(s, Len(s) - Len(suffix) + 1, Len(s)) = suffix

\* str.lstrip(c)
RECURSIVE LStrip(_, _)
LStrip(s, c) ==
    IF s # <<>> /\ Head(s) = c THEN LStrip(Tail(s), c) ELSE s

\* str.rstrip(c)
RECURSIVE RStrip(_, _)
RStrip(s, c) ==
    IF s # <<>> /\ s[Len(s)] = c THEN RStrip(SubSeq(s, 1, Len(s) - 1), c) ELSE s

\* str.strip(c)
Strip(s, c) == RStrip(LStrip(s, c), c)

\* str.replace(old, new) for one-character old and new
Replace(s, old, new) == [i \in 1..Len(s) |-> IF s[i] = old THEN new ELSE s[i]]

\* str.split(sep): the list of the pieces between the separators
RECURSIVE SplitAcc(_, _, _, _)
SplitAcc(s, sep, piece, acc) ==
    IF s = <<>> THEN Append(acc, piece)
    ELSE IF Head(s) = sep THEN SplitAcc(Tail(s), sep, <<>>, Append(acc, piece))
    ELSE SplitAcc(Tail(s), sep, Append(piece, Head(s)), acc)

Split(s, sep) == SplitAcc(s, sep, <<>>, <<>>)

\* sep.join(pieces)
RECURSIVE JoinWith(_, _)
JoinWith(pieces, sep) ==
    IF pieces = <<>> THEN <<>>
    ELSE IF Len(pieces) = 1 THEN pieces[1]
    ELSE pieces[1] \o <<sep>> \o JoinWith(Tail(pieces), sep)

----------------------------------------------------------------------------
(* posixpath *)

os_sep == "/"

\* index of the last os.sep of p, 0 when there is none (str.rfind + 1)
RECURSIVE RFindSep(_, _)
RFindSep(p, i) ==
    IF i = 0 THEN 0 ELSE IF p[i] = os_sep THEN i ELSE RFindSep(p, i - 1)

AllSeps(s) == \A i \in 1..Len(s) : s[i] = os_sep

\* os.path.dirname
Dirname(p) ==
    LET i == RFindSep(p, Len(p))
        head == SubSeq(p, 1, i)
    IN IF head # <<>> /\ ~AllSeps(head) THEN RStrip(head, os_sep) ELSE head

\* os.path.join(a, b)
PathJoin(a, b) ==
    IF b # <<>> /\ Head(b) = os_sep THEN b
    ELSE IF a = <<>> \/ a[Len(a)] = os_sep THEN a \o b
    ELSE a \o <<os_sep>> \o b

\* os.path.normpath on the components: '' and '.' dropped, '..' pops
RECURSIVE NormComps(_, _)
NormComps(comps, acc) ==
    IF comps = <<>> THEN acc
    ELSE LET c == Head(comps) IN
         IF c = <<>> \/ c = <<".">> THEN NormComps(Tail(comps), acc)
         ELSE IF c = <<".", ".">> THEN
              NormComps(Tail(comps),
                        IF acc = <<>> THEN acc ELSE SubSeq(acc, 1, Len(acc) - 1))
         ELSE NormComps(Tail(comps), Append(acc, c))

\* the components of os.path.abspath(p) when the working directory is wd
AbsComps(wd, p) == NormComps(Split(PathJoin(wd, p), os_sep), <<>>)

\* len(os.path.commonprefix([a, b])) on component lists
RECURSIVE CommonLen(_, _)
CommonLen(a, b) ==
    IF a = <<>> \/ b = <<>> \/ Head(a) # Head(b) THEN 0
    ELSE 1 + CommonLen(Tail(a), Tail(b))

\* os.path.relpath(path, start) when the working directory is wd
Relpath(wd, path, start) ==
    LET start_list == AbsComps(wd, start)
        path_list == AbsComps(wd, path)
        i == CommonLen(start_list, path_list)
        rel_list == [k \in 1..(Len(start_list) - i) |-> <<".", ".">>]
                    \o SubSeq(path_list, i + 1, Len(path_list))
    IN IF rel_list = <<>> THEN <<".">> ELSE JoinWith(rel_list, os_sep)

----------------------------------------------------------------------------
(* The modelled world: one folder /w/p, its files, one bucket *)

\* names of files and directories
nA == <<"A", ".", "T">>
nB == <<"b">>
nC == <<"c">>
nD == <<"d">>
nS == <<"s">>
nE == <<"E", ".", "t">>

\* the files a folder may hold: [dir (below the folder), name]
UploadFiles ==
    { [dir |-> <<>>, name |-> nA],
      [dir |-> <<nD>>, name |-> nC] }

CheckFiles ==
    UploadFiles \cup { [dir |-> <<>>, name |-> nB], [dir |-> <<nD, nS>>, name |-> nE] }

\* the contents a file may have
Bodies == {1, 2}

\* os.path.getsize of a file with the given content
BodySizes == <<25600, 31457280>>
BodySize(b) == BodySizes[((b - 1) % Len(BodySizes)) + 1]

\* hashlib.md5(...).hexdigest(): lowercase hex, one digest per content
HexLetters == <<"a", "b", "c", "d", "e", "f">>
HexDigits == <<"1", "2", "3", "4", "5", "6", "7", "8", "9", "0">>
get_md5(b) ==
    << HexLetters[((b - 1) % Len(HexLetters)) + 1],
       HexDigits[((b - 1) % Len(HexDigits)) + 1] >>

\* (working directory, folder_path) pairs click.Path(exists=True) accepts
\* for the folder /w/p
Spellings ==
    { << <<"/", "w">>, <<"p">> >>,
      << <<"/", "w">>, <<"p", "/">> >>,
      << <<"/", "w">>, <<"/", "w", "/", "p">> >>,
      << <<"/", "w", "/", "p">>, <<".">> >> }

\* values of the --ignore-ext option
UploadIgnoreArgs == { {}, { <<"T">> }, { <<".", ".", "t">> } }
IgnoreArgs == UploadIgnoreArgs \cup { { <<"/", "b">> } }

\* fingerprints an object written by another tool may carry
Quoted(s) == <<"\"">> \o s \o <<"\"">>
UpperHex(s) == [i \in 1..Len(s) |-> IF s[i] = "a" THEN "A" ELSE s[i]]
ForeignFingerprints == { None, get_md5(1), Quoted(get_md5(1)), UpperHex(get_md5(1)) }

KeyZ == <<"z">>
KeyA == <<"p", "/", "A", ".", "T">>

EmptyBucket == [k \in {} |-> None]

BucketInits ==
    { EmptyBucket, KeyZ :> [md5 |-> None, body |-> 1] }
    \cup { (KeyZ :> [md5 |-> None, body |-> 1]) @@ (KeyA :> [md5 |-> m, body |-> 1])
           : m \in ForeignFingerprints }

BucketNames == { <<"b", "k", "t">> }
EmptyStr == <<>>

----------------------------------------------------------------------------
(* Helpers of the commands *)

NotConfigured_isNone(b) == b = None

\* main.py:119  `if not bucket_name`
NotConfigured(b) == b = None \/ b = EmptyStr

\* main.py:87, 129  set('.' + ext.lstrip('.').lower() for ext in ignore_ext)
NormalizeExt(exts) == { <<".">> \o Lower(LStrip(e, ".")) : e \in exts }

\* main.py:37, 95, 132, 141  any(s.lower().endswith(ext) for ext in ignore_ext)
AnyEndsWith(s, ign) == \E e \in ign : EndsWith(Lower(s), e)

\* os.walk: dirpath of a directory below top
RECURSIVE DirPath(_, _)
DirPath(top, dir) ==
    IF dir = <<>> THEN top
    ELSE DirPath(PathJoin(top, Head(dir)), Tail(dir))

\* main.py:143
FullPath(fp, f) == PathJoin(DirPath(fp, f.dir), f.name)

\* main.py:144-145
S3Key(wd, fp, f) ==
    Replace(Relpath(wd, FullPath(fp, f), Dirname(fp)), os_sep, "/")

\* main.py:147  s3_objects[s3_key].strip('"') == local_md5
Unchanged(stored, local_md5) == Strip(stored, "\"") = local_md5

\* main.py:53  response.get('Metadata').get('file-md5', None)
list_s3_objects(bkt) == [k \in DOMAIN bkt |-> bkt[k].md5]

\* the entries of directory dir in listing order: the files, then the
\* subdirectories
FilesIn(files, dir) ==
    SelectSeq(dirOrder, LAMBDA n : \E f \in files : f.dir = dir /\ f.name = n)
DirsIn(files, dir) ==
    SelectSeq(dirOrder,
              LAMBDA n : \E f \in files :
                  /\ Len(f.dir) > Len(dir)
                  /\ SubSeq(f.dir, 1, Len(dir)) = dir
                  /\ f.dir[Len(dir) + 1] = n)

FileAt(files, dir, n) == CHOOSE f \in files : f.dir = dir /\ f.name = n

\* os.walk(top), top-down: the files of a directory, then its subdirectories
RECURSIVE Walk(_, _)
RECURSIVE WalkDirs(_, _, _)
Walk(files, dir) ==
    LET names == FilesIn(files, dir)
    IN [i \in 1..Len(names) |-> FileAt(files, dir, names[i])]
       \o WalkDirs(files, dir, DirsIn(files, dir))
WalkDirs(files, dir, subs) ==
    IF subs = <<>> THEN <<>>
    ELSE Walk(files, Append(dir, Head(subs))) \o WalkDirs(files, dir, Tail(subs))

\* main.py:128-136  the sizing pass of upload
RECURSIVE SizingPass(_, _)
SizingPass(files, ign) ==
    IF files = <<>> THEN 0
    ELSE (IF AnyEndsWith(Head(files).name, ign) THEN 0
          ELSE BodySize(Head(files).body))
         + SizingPass(Tail(files), ign)

\* main.py:65-72  get_transfer_config
multipart_threshold == 1024 * 25
multipart_chunksize == 1024 * 25 * 1024

\* s3transfer under that configuration: multipart at or above the threshold,
\* in parts of multipart_chunksize
IsMultipart(size) == size >= multipart_threshold
PartCount(size) ==
    IF IsMultipart(size)
    THEN (IF size = 0 THEN 1
          ELSE (size + multipart_chunksize - 1) \div multipart_chunksize)
    ELSE 1

PutObject_upperDigest(bkt, key, local_md5, body) ==
    [k \in DOMAIN bkt \cup {key} |->
        IF k = key THEN [md5 |-> UpperHex(local_md5), body |-> body] ELSE bkt[k]]

PutObject_mirror(bkt, key, local_md5, body) ==
    key :> [md5 |-> local_md5, body |-> body]

\* main.py:151-155, 61  the object transfer.upload_file stores
PutObject(bkt, key, local_md5, body) ==
    [k \in DOMAIN bkt \cup {key} |->
        IF k = key THEN [md5 |-> local_md5, body |-> body] ELSE bkt[k]]

----------------------------------------------------------------------------
(* State *)

Id(f) == [dir |-> f.dir, name |-> f.name]

NoConfigMsg == "No configuration found. Please run 'luna configure'."
ReadErrorMsg == "Error reading configuration"
SavedMsg == "AWS S3 bucket configuration saved."
SaveErrorMsg == "Failed to save configuration"

\* no command is running
Idle == pc = "idle"

\* the command has returned or raised and the process has not exited yet
Ended == pc \in {"returned", "raised"}

\* each file of the folder present with its first content, or absent
FsInits(universe) ==
    { { [dir |-> f.dir, name |-> f.name, body |-> 1] : f \in S } : S \in SUBSET universe }

AllNames == <<nA, nB, nD, nC, nS, nE>>

RunReset ==
    /\ s3_objects = EmptyBucket
    /\ todo = <<>>
    /\ total_size = 0
    /\ outcome = EmptyBucket
    /\ uploadCalls = <<>>
    /\ listCalls = 0
    /\ md5Calls = 0
    /\ echoed = <<>>
    /\ raised = NoError
    /\ table = <<>>

\* The shelf outlives the commands: before the first command of the model it
\* holds no bucket name, or an empty one (configure itself cannot store an
\* empty name, click.prompt asks again; `if not bucket_name` treats both alike).
Init ==
    /\ config \in {None, EmptyStr}
    /\ fs \in FsInits(UploadFiles)
    /\ dirOrder = AllNames
    /\ bucket \in BucketInits
    /\ command = "none"
    /\ pc = "idle"
    /\ cwd = <<>>
    /\ folder_path = <<>>
    /\ ignore_ext = {}
    /\ bucket_name = None
    /\ RunReset
    /\ runs = 0
    /\ edits = 0
    /\ prev = NoPrev

----------------------------------------------------------------------------
(* luna configure *)

\* main.py:159-167
Configure(name, saveOk) ==
    /\ Idle
    /\ config' = IF saveOk THEN name ELSE config
    /\ echoed' = IF saveOk THEN <<SavedMsg>> ELSE <<SaveErrorMsg>>
    /\ command' = "configure"
    /\ pc' = "returned"
    /\ UNCHANGED <<fs, dirOrder, bucket, cwd, folder_path, ignore_ext, bucket_name,
                   s3_objects, todo, total_size, outcome, uploadCalls, listCalls,
                   md5Calls, raised, table, runs, edits, prev>>

----------------------------------------------------------------------------
(* luna upload *)

\* main.py:12-19  read_config
read_config(readOk) == IF readOk THEN config ELSE None

\* main.py:118-136: configuration, snapshot of the bucket, sizing pass
UploadBegin(wd, fp, exts, readOk, listOk) ==
    /\ Idle
    /\ runs < MaxRuns
    /\ runs' = runs + 1
    /\ command' = "upload"
    /\ cwd' = wd
    /\ folder_path' = fp
    /\ bucket_name' = read_config(readOk)
    /\ UNCHANGED <<outcome, uploadCalls, md5Calls, table>>
    /\ IF NotConfigured(bucket_name')
       THEN /\ echoed' = (IF readOk THEN <<>> ELSE <<ReadErrorMsg>>) \o <<NoConfigMsg>>
            /\ pc' = "returned"
            /\ raised' = NoError
            /\ listCalls' = 0
            /\ s3_objects' = EmptyBucket
            /\ todo' = <<>>
            /\ total_size' = 0
            /\ ignore_ext' = {}
       ELSE /\ echoed' = <<>>
            /\ listCalls' = 1
            /\ IF listOk
               THEN /\ s3_objects' = list_s3_objects(bucket)
                    /\ todo' = Walk(fs, <<>>)
                    /\ ignore_ext' = NormalizeExt(exts)
                    /\ total_size' = SizingPass(todo', ignore_ext')
                    /\ pc' = "upload"
                    /\ raised' = NoError
               ELSE /\ s3_objects' = EmptyBucket
                    /\ todo' = <<>>
                    /\ ignore_ext' = {}
                    /\ total_size' = 0
                    /\ pc' = "raised"
                    /\ raised' = "ClientError"
    /\ UNCHANGED <<config, fs, dirOrder, bucket, edits, prev>>

\* one iteration of the loop of main.py:139-155 on the next file of the walk
UploadFile(readable, putOk) ==
    /\ pc = "upload"
    /\ todo # <<>>
    /\ LET f == Head(todo)
           s3_key == S3Key(cwd, folder_path, f)
           local_md5 == get_md5(f.body)
           size == BodySize(f.body)
           call == [key |-> s3_key, md5 |-> local_md5, size |-> size,
                    multipart |-> IsMultipart(size), parts |-> PartCount(size)]
       IN
       /\ todo' = Tail(todo)
       /\ IF AnyEndsWith(f.name, ignore_ext)
          THEN \* line 141-142: continue
               /\ outcome' = outcome @@ (Id(f) :> "excluded")
               /\ UNCHANGED <<md5Calls, uploadCalls, bucket, pc, raised>>
          ELSE /\ md5Calls' = md5Calls + 1
               /\ IF ~readable
                  THEN \* line 146: open() raises
                       /\ outcome' = outcome @@ (Id(f) :> "md5_error")
                       /\ pc' = "raised"
                       /\ raised' = "OSError"
                       /\ UNCHANGED <<uploadCalls, bucket>>
                  ELSE IF s3_key \in DOMAIN s3_objects /\ s3_objects[s3_key] = None
                  THEN \* line 147: None.strip
                       /\ outcome' = outcome @@ (Id(f) :> "attr_error")
                       /\ pc' = "raised"
                       /\ raised' = "AttributeError"
                       /\ UNCHANGED <<uploadCalls, bucket>>
                  ELSE IF /\ s3_key \in DOMAIN s3_objects
                          /\ Unchanged(s3_objects[s3_key], local_md5)
                  THEN \* line 148-149: skipped
                       /\ outcome' = outcome @@ (Id(f) :> "skipped")
                       /\ UNCHANGED <<uploadCalls, bucket, pc, raised>>
                  ELSE \* line 151-155
                       /\ uploadCalls' = Append(uploadCalls, call)
                       /\ IF putOk
                          THEN /\ bucket' = PutObject(bucket, s3_key, local_md5, f.body)
                               /\ outcome' = outcome @@ (Id(f) :> "uploaded")
                               /\ UNCHANGED <<pc, raised>>
                          ELSE /\ outcome' = outcome @@ (Id(f) :> "upload_error")
                               /\ pc' = "raised"
                               /\ raised' = "S3UploadFailedError"
                               /\ UNCHANGED bucket
    /\ UNCHANGED <<config, fs, dirOrder, command, cwd, folder_path, ignore_ext,
                   bucket_name, s3_objects, total_size, listCalls, echoed, table,
                   runs, edits, prev>>

\* the walk is exhausted: upload returns
UploadEnd ==
    /\ pc = "upload"
    /\ todo = <<>>
    /\ pc' = "returned"
    /\ prev' = [run |-> runs, wd |-> cwd, fp |-> folder_path, ign |-> ignore_ext,
                uploads |-> Len(uploadCalls)]
    /\ UNCHANGED <<config, fs, dirOrder, bucket, command, cwd, folder_path,
                   ignore_ext, bucket_name, s3_objects, todo, total_size, outcome,
                   uploadCalls, listCalls, md5Calls, echoed, raised, table, runs,
                   edits>>

----------------------------------------------------------------------------
(* The process of the command exits: its memory and output are gone *)

\* main.py:174-175
Exit ==
    /\ Ended
    /\ command' = "none"
    /\ pc' = "idle"
    /\ cwd' = <<>>
    /\ folder_path' = <<>>
    /\ ignore_ext' = {}
    /\ bucket_name' = None
    /\ s3_objects' = EmptyBucket
    /\ todo' = <<>>
    /\ total_size' = 0
    /\ outcome' = EmptyBucket
    /\ uploadCalls' = <<>>
    /\ listCalls' = 0
    /\ md5Calls' = 0
    /\ echoed' = <<>>
    /\ raised' = NoError
    /\ table' = <<>>
    /\ UNCHANGED <<config, fs, dirOrder, bucket, runs, edits, prev>>

----------------------------------------------------------------------------
(* The user changes the folder between two commands *)

EditFile(f, b) ==
    /\ Idle
    /\ edits < MaxEdits
    /\ f \in fs
    /\ b \in Bodies \ {f.body}
    /\ fs' = (fs \ {f}) \cup {[f EXCEPT !.body = b]}
    /\ edits' = edits + 1
    /\ prev' = NoPrev
    /\ UNCHANGED <<config, dirOrder, bucket, command, pc, cwd, folder_path, ignore_ext,
                   bucket_name, s3_objects, todo, total_size, outcome, uploadCalls,
                   listCalls, md5Calls, echoed, raised, table, runs>>

DeleteFile(f) ==
    /\ Idle
    /\ edits < MaxEdits
    /\ f \in fs
    /\ fs' = fs \ {f}
    /\ edits' = edits + 1
    /\ prev' = NoPrev
    /\ UNCHANGED <<config, dirOrder, bucket, command, pc, cwd, folder_path, ignore_ext,
                   bucket_name, s3_objects, todo, total_size, outcome, uploadCalls,
                   listCalls, md5Calls, echoed, raised, table, runs>>

Next ==
    \/ \E name \in BucketNames, saveOk \in BOOLEAN : Configure(name, saveOk)
    \/ \E sp \in Spellings, exts \in UploadIgnoreArgs, readOk \in BOOLEAN, listOk \in BOOLEAN :
          UploadBegin(sp[1], sp[2], exts, readOk, listOk)
    \/ \E readable \in BOOLEAN, putOk \in BOOLEAN : UploadFile(readable, putOk)
    \/ UploadEnd
    \/ Exit
    \/ \E f \in fs, b \in Bodies : EditFile(f, b)
    \/ \E f \in fs : DeleteFile(f)

Spec == Init /\ [][Next]_vars

----------------------------------------------------------------------------
(* luna checkfolder *)

\* os.listdir(folder_path): the files and directories at the top, in listing
\* order
ListDir(files) ==
    SelectSeq(dirOrder,
              LAMBDA n : \E f \in files :
                  \/ f.dir = <<>> /\ f.name = n
                  \/ f.dir # <<>> /\ f.dir[1] = n)

\* os.path.isdir(os.path.join(folder_path, entry))
IsDir(files, entry) == \E f \in files : f.dir # <<>> /\ f.dir[1] = entry

\* main.py:32-42  get_size over the files below the top-level directory entry
RECURSIVE SumSizes(_, _)
SumSizes(files, ign) ==
    IF files = {} THEN 0
    ELSE LET f == CHOOSE x \in files : TRUE
         IN (IF AnyEndsWith(f.name, ign) THEN 0 ELSE BodySize(f.body))
            + SumSizes(files \ {f}, ign)

get_size(files, entry, ign) ==
    SumSizes({ f \in files : f.dir # <<>> /\ f.dir[1] = entry }, ign)

\* main.py:90-98  the (entry, size) rows in listing order
RECURSIVE CollectSizes(_, _, _, _)
CollectSizes(files, entries, fp, ign) ==
    IF entries = <<>> THEN <<>>
    ELSE LET entry == Head(entries)
             full_path == PathJoin(fp, entry)
             rest == CollectSizes(files, Tail(entries), fp, ign)
         IN IF IsDir(files, entry)
            THEN << <<entry, get_size(files, entry, ign)>> >> \o rest
            ELSE IF AnyEndsWith(full_path, ign)
            THEN rest
            ELSE << <<entry, BodySize(FileAt(files, <<>>, entry).body)>> >> \o rest

RECURSIVE InsertDesc_unstable(_, _)
InsertDesc_unstable(sorted, row) ==
    IF sorted = <<>> THEN <<row>>
    ELSE IF Head(sorted)[2] > row[2]
         THEN <<Head(sorted)>> \o InsertDesc_unstable(Tail(sorted), row)
         ELSE <<row>> \o sorted

\* list.sort(key=size, reverse=True) is stable: a row goes after every row
\* already placed whose size is not smaller
RECURSIVE InsertDesc(_, _)
InsertDesc(sorted, row) ==
    IF sorted = <<>> THEN <<row>>
    ELSE IF Head(sorted)[2] >= row[2]
         THEN <<Head(sorted)>> \o InsertDesc(Tail(sorted), row)
         ELSE <<row>> \o sorted

RECURSIVE SortDescAcc(_, _)
SortDescAcc(rows, acc) ==
    IF rows = <<>> THEN acc
    ELSE SortDescAcc(Tail(rows), InsertDesc(acc, Head(rows)))

\* main.py:102
SortBySizeDesc(rows) == SortDescAcc(rows, <<>>)

\* main.py:84-110
Checkfolder(wd, fp, exts) ==
    /\ Idle
    /\ command' = "checkfolder"
    /\ cwd' = wd
    /\ folder_path' = fp
    /\ ignore_ext' = NormalizeExt(exts)
    /\ table' = SortBySizeDesc(CollectSizes(fs, ListDir(fs), fp, ignore_ext'))
    /\ pc' = "returned"
    /\ UNCHANGED <<config, fs, dirOrder, bucket, bucket_name, s3_objects, todo,
                   total_size, outcome, uploadCalls, listCalls, md5Calls, echoed,
                   raised, runs, edits, prev>>

\* the orders in which the OS may list the top of the folder
TopOrders ==
    { <<nA, nB, nD>>, <<nA, nD, nB>>, <<nB, nA, nD>>,
      <<nB, nD, nA>>, <<nD, nA, nB>>, <<nD, nB, nA>> }

\* any content for each file of the folder, or the file absent
CheckFsInits ==
    { { [dir |-> f.dir, name |-> f.name, body |-> b[f]] : f \in S } :
        S \in SUBSET CheckFiles, b \in [CheckFiles -> Bodies] }

CheckInit ==
    /\ config = None
    /\ fs \in CheckFsInits
    /\ dirOrder \in { o \o <<nC, nS, nE>> : o \in TopOrders }
    /\ bucket = EmptyBucket
    /\ command = "none"
    /\ pc = "idle"
    /\ cwd = <<>>
    /\ folder_path = <<>>
    /\ ignore_ext = {}
    /\ bucket_name = None
    /\ RunReset
    /\ runs = 0
    /\ edits = 0
    /\ prev = NoPrev

CheckNext ==
    \/ \E sp \in Spellings, exts \in IgnoreArgs : Checkfolder(sp[1], sp[2], exts)
    \/ Exit

SpecCheck == CheckInit /\ [][CheckNext]_vars


----------------------------------------------------------------------------
(* Properties *)

Range(seq) == { seq[i] : i \in 1..Len(seq) }

\* the running upload got past the configuration check and took its snapshot
SnapshotTaken ==
    command = "upload" /\ ~(bucket_name \in {None, EmptyStr}) /\ raised # "ClientError"

\* the name of the folder /w/p itself
RootName == <<"p">>

\* a file is filtered when its lowercased name ends with an extension of the
\* normalised filter
Filtered(f) == \E e \in ignore_ext : EndsWith(Lower(f.name), e)

\* the keys of the files the running upload is to process
CurrentKeys ==
    IF command = "upload"
    THEN { S3Key(cwd, folder_path, f) : f \in { g \in fs : ~Filtered(g) } }
    ELSE {}

CallsFor(key) == { i \in 1..Len(uploadCalls) : uploadCalls[i].key = key }

C2_DecisionRule ==
    SnapshotTaken =>
        \A f \in fs :
            (Id(f) \in DOMAIN outcome /\ outcome[Id(f)] \notin {"excluded", "md5_error"}) =>
                LET key == S3Key(cwd, folder_path, f)
                    match == /\ key \in DOMAIN s3_objects
                             /\ s3_objects[key] # None
                             /\ Strip(s3_objects[key], "\"") = get_md5(f.body)
                IN IF match
                   THEN /\ CallsFor(key) = {}
                        /\ outcome[Id(f)] = "skipped"
                   ELSE /\ Cardinality(CallsFor(key)) = 1
                        /\ \A i \in CallsFor(key) : uploadCalls[i].md5 = get_md5(f.body)

\* C3: when an upload has ended after get_md5 or transfer.upload_file failed
\* on a file, the upload still returned and every file of the folder was
\* reached.
C3_PartialFailure ==
    ( /\ SnapshotTaken
      /\ Ended
      /\ \E id \in DOMAIN outcome : outcome[id] \in {"md5_error", "upload_error"} )
    => ( /\ pc = "returned"
         /\ \A f \in fs : Id(f) \in DOMAIN outcome )

\* C4: the key of every upload call has the folder's own name as its first
\* segment, followed by the file's path below the folder, with / between the
\* segments.
C4_KeyStartsWithRoot ==
    command = "upload" =>
        \A i \in 1..Len(uploadCalls) :
            \E f \in fs :
                uploadCalls[i].key = JoinWith(<<RootName>> \o f.dir \o <<f.name>>, "/")

\* C5: a file is uploaded in parts exactly when its size is at least 25 MB,
\* and a file of 30 MB is uploaded in 2 parts.
C5_Threshold25MB ==
    \A i \in 1..Len(uploadCalls) :
        /\ uploadCalls[i].multipart <=> (uploadCalls[i].size >= 25 * 1024 * 1024)
        /\ (uploadCalls[i].size = 30 * 1024 * 1024 => uploadCalls[i].parts = 2)

\* C6: no step removes a key from the bucket, and no step changes an object
\* whose key is not the key of a file the running upload is to process.
C6_NeverRemoves ==
    [][ bucket' # bucket =>
            \A k \in DOMAIN bucket :
                /\ k \in DOMAIN bucket'
                /\ (k \notin CurrentKeys => bucket'[k] = bucket[k]) ]_vars

\* C6 witness: a second upload has uploaded and returned, and the bucket still
\* holds the foreign object and an object whose local file is gone.
C6_Witness ==
    /\ command = "upload"
    /\ pc = "returned"
    /\ runs = 2
    /\ uploadCalls # <<>>
    /\ KeyZ \in DOMAIN bucket
    /\ bucket[KeyZ] = [md5 |-> None, body |-> 1]
    /\ \E f \in UploadFiles :
          /\ ~(\E g \in fs : Id(g) = f)
          /\ S3Key(cwd, folder_path, f) \in DOMAIN bucket

\* C7: an upload started while the stored bucket name is absent or empty, or
\* while the configuration cannot be read, prints the message and returns
\* without listing, hashing or uploading, and leaves the bucket as it was.
C7_NoConfigNoWork ==
    [][ ( /\ pc = "idle"
          /\ command' = "upload"
          /\ (config \in {None, EmptyStr} \/ ReadErrorMsg \in Range(echoed')) )
        => ( /\ pc' = "returned"
             /\ raised' = NoError
             /\ echoed'[Len(echoed')] = NoConfigMsg
             /\ listCalls' = 0
             /\ md5Calls' = 0
             /\ uploadCalls' = <<>>
             /\ todo' = <<>>
             /\ bucket' = bucket ) ]_vars

\* C7 witness: upload has returned on an empty stored bucket name, with files
\* in the folder and objects in the bucket.
C7_Witness ==
    /\ command = "upload"
    /\ pc = "returned"
    /\ config = EmptyStr
    /\ echoed = <<NoConfigMsg>>
    /\ fs # {}
    /\ bucket # EmptyBucket
    /\ listCalls = 0

\* C8: when checkfolder has returned, a top-level file is a row of the table
\* exactly when it is not filtered, and the size of a directory row is the
\* sum of the sizes of the files below it that are not filtered; when upload
\* has walked the folder, the files it did not process are exactly the
\* filtered ones and the byte total is that of the files not filtered.
C8_FilterIdentical ==
    /\ (command = "checkfolder" /\ pc = "returned") =>
          /\ \A f \in fs : f.dir = <<>> =>
                ((\E i \in 1..Len(table) : table[i][1] = f.name) <=> ~Filtered(f))
          /\ \A i \in 1..Len(table) : IsDir(fs, table[i][1]) =>
                table[i][2] = SumSizes({ f \in fs : f.dir # <<>> /\ f.dir[1] = table[i][1]
                                                      /\ ~Filtered(f) }, {})
    /\ (command = "upload" /\ pc = "upload") =>
          /\ \A id \in DOMAIN outcome :
                (outcome[id] = "excluded") <=> (\E f \in fs : Id(f) = id /\ Filtered(f))
          /\ total_size = SumSizes({ f \in fs : ~Filtered(f) }, {})

\* position of a name in the listing order
Pos(n) == CHOOSE i \in 1..Len(dirOrder) : dirOrder[i] = n

\* C9: the rows checkfolder prints are in non-increasing order of size, and
\* rows of equal size are in the order of the directory listing.
C9_SortedStable ==
    (command = "checkfolder" /\ pc = "returned") =>
        \A i \in 1..Len(table), j \in 1..Len(table) : i < j =>
            /\ table[i][2] >= table[j][2]
            /\ (table[i][2] = table[j][2] => Pos(table[i][1]) < Pos(table[j][1]))

\* C9 witness: three rows, two of equal size, and the first row was not the
\* first entry listed.
C9_Witness ==
    /\ command = "checkfolder"
    /\ pc = "returned"
    /\ Len(table) = 3
    /\ table[1][2] > table[2][2]
    /\ table[2][2] = table[3][2]
    /\ Pos(table[1][1]) > Pos(table[3][1])

\* C10: a file whose key is in the snapshot without a fingerprint, and whose
\* MD5 was computed, gets an upload call, and the run is not ended by the
\* missing fingerprint.
C10_MissingFingerprintUploads ==
    SnapshotTaken =>
        /\ raised # "AttributeError"
        /\ \A f \in fs :
              LET key == S3Key(cwd, folder_path, f)
              IN ( /\ Id(f) \in DOMAIN outcome
                   /\ outcome[Id(f)] \notin {"excluded", "md5_error"}
                   /\ key \in DOMAIN s3_objects
                   /\ s3_objects[key] = None )
                 => CallsFor(key) # {}

====
